---- MODULE Spec2Model ----
(* A state-machine model of backup() in src/backup.py: one sequential job   *)
(* that restores an RDS snapshot into an ephemeral instance, dumps it,      *)
(* optionally syncs the dump to a remote host, and deletes the instance.    *)
(* A cloud API call, a database connection, the exclusive file creation and *)
(* the launch of a dump tool either return or raise; an exception that is   *)
(* raised is never caught by backup(), so it ends the job on the spot.      *)
(* The outcome of an rsync call is the exit status it returns.              *)
EXTENDS Integers, Sequences, FiniteSets, TLC

VARIABLES
    cfg,            \* the click options of the job (read-only)
    pc,             \* position of backup() in its body
    error,          \* the exception that ended the job, "none" otherwise
    snapState,      \* the snapshot made by --snapshot: none/creating/completed/deleted
    latest,         \* the snapshot reference restored from: <<>> or <<kind, time>>
    instState,      \* ephemeral instance: none/restoring/available/reconfigured/deleted
    engine,         \* db['Engine'] once read, "unknown" before
    slept,          \* TRUE once the warm-up delay was taken
    fs,             \* local files: path -> absent/stub/empty/partial/dump
    created,        \* paths this job created with O_CREAT|O_EXCL
    returncode,     \* the local returncode: <<>> while unbound, <<n>> once bound
    dumprc,         \* exit status of the dump tool, <<>> before it returned
    xzrc,           \* exit status of xz (mysql only), <<>> before it returned
    grants,         \* number of GRANT statements executed by the permission fixer
    permsCommitted, \* TRUE once the grants were committed
    stripped,       \* TRUE once the password overwrite was committed
    transfers,      \* the rsync invocations so far: sequence of [mode, rc]
    delInstCalls,   \* number of delete_db_instance calls issued
    delSnapCalls,   \* number of delete_db_snapshot calls issued
    hcCalls,        \* number of requests.get(healthcheck) calls issued
    probe           \* inputs and results of the naming functions applied on
                    \* their own; <<>> in a job

vars == <<cfg, pc, error, snapState, latest, instState, engine, slept, fs,
          created, returncode, dumprc, xzrc, grants, permsCommitted, stripped,
          transfers, delInstCalls, delSnapCalls, hcCalls, probe>>

cloud == <<snapState, latest, instState, engine, slept>>
local == <<fs, created, returncode, dumprc, xzrc>>
pg    == <<grants, permsCommitted, stripped>>
tail  == <<transfers, delInstCalls, delSnapCalls, hcCalls>>

----------------------------------------------------------------------------
(* Bounds and value sets *)

\* number of distinct snapshot times the provider may list
MaxSnap == 2

SnapTimes == 1..MaxSnap

\* exit statuses a subprocess may return: 0 is success
ExitStatuses == {0, 1}

\* engines describe_db_instances may report
Engines == {"mysql", "postgres", "mariadb"}

Paths == {"sql.xz", "dump", "SAFE.dump"}

\* the four privileges granted by the permission fixer
Privileges == <<"ALL ON", "ALL PRIVILEGES ON ALL TABLES IN", "USAGE ON",
                "SELECT ON ALL SEQUENCES IN">>

Configs == [snapshot : BOOLEAN, fix_perms : BOOLEAN, strip_passwords : BOOLEAN,
            sync_and_delete : BOOLEAN, healthcheck : BOOLEAN, sleep : BOOLEAN]

----------------------------------------------------------------------------
(* Decisions taken by the code *)

\* a slip: O_EXCL left out of the flags, so an existing file is opened for writing
OpenNoExcl(content) == TRUE

\* os.open(dumpfile, O_WRONLY | O_CREAT | O_EXCL, 0600) succeeds only on a free path
OpenExclOk(content) == content = "absent"

\* a slip: the -SAFE tag is added before the engine is looked at
DumpPathTagFirst(eng, strip) ==
    IF strip THEN "SAFE.dump"
    ELSE IF eng = "mysql" THEN "sql.xz" ELSE "dump"

\* the dump file name: base.sql.xz for mysql, base[-SAFE].dump for postgres
DumpPath(eng, strip) ==
    IF eng = "mysql" THEN "sql.xz"
    ELSE IF strip THEN "SAFE.dump" ELSE "dump"

----------------------------------------------------------------------------
(* Strings are sequences of characters, compared as Python compares str *)

Digits == <<"0", "1", "2", "3", "4", "5", "6", "7", "8", "9">>

\* the characters in use, in code point order: '-' < digits < ':' < letters
Alphabet == <<"-">> \o Digits \o <<":", "a", "b", "d", "f", "o", "r", "s">>

Ord(c) == CHOOSE i \in 1..Len(Alphabet) : Alphabet[i] = c

\* one digit of a formatted time field
Digit(n) == Digits[n + 1]

\* the instance argument of the job, and the names of other instances
Instance == <<"f", "o", "o">>
Names == {Instance, Instance \o <<"b", "a", "r">>, <<"b", "a", "r">>}

\* rds:<name>-%Y-%m-%d-%H-%M, the provider's name of an automated snapshot
AutomatedId(name, minute) ==
    <<"r", "d", "s", ":">> \o name \o <<"-", Digit(minute)>>

\* identifiers describe_db_snapshots may list
Identifiers == {AutomatedId(n, m) : n \in Names, m \in SnapTimes}

\* s.startswith(p)
StartsWith(s, p) == Len(s) >= Len(p) /\ SubSeq(s, 1, Len(p)) = p

\* a <= b on str
RECURSIVE LexLE(_, _)
LexLE(a, b) ==
    IF a = <<>> THEN TRUE
    ELSE IF b = <<>> THEN FALSE
    ELSE IF a[1] = b[1] THEN LexLE(Tail(a), Tail(b))
    ELSE Ord(a[1]) < Ord(b[1])

\* f'rds:{instance}'
Prefix(inst) == <<"r", "d", "s", ":">> \o inst

\* [s for s in snapshots if s.startswith(f'rds:{instance}')]
Matching(listed, inst) == {id \in listed : StartsWith(id, Prefix(inst))}

\* max([...]) over the identifiers kept by the filter
MaxSnapshot(S) == CHOOSE t \in S : \A u \in S : LexLE(u, t)

\* datetime.strptime(latest, f'rds:{instance}-%Y-%m-%d-%H-%M'): <<time>>, or <<>>
\* for the ValueError of a string that does not match the format
Strptime(id, inst) ==
    IF \E m \in 0..9 : id = AutomatedId(inst, m)
    THEN <<(<<CHOOSE m \in 0..9 : id = AutomatedId(inst, m), 0>>)>>
    ELSE <<>>

\* lines 72-80 as a function of the provider's answer: the identifier chosen and
\* the snapshot time parsed from it, with the exception raised if any
Resolve(listed, inst) ==
    IF Matching(listed, inst) = {}
    THEN [latest |-> <<>>, snaptime |-> <<>>, error |-> "ValueError"]
    ELSE LET l == MaxSnapshot(Matching(listed, inst))
         IN  [latest |-> l, snaptime |-> Strptime(l, inst),
              error |-> IF Strptime(l, inst) = <<>> THEN "ValueError" ELSE "none"]

\* a slip: the sync is started whatever the dump returned
SyncWhateverDump(rc, sync) == sync

\* if returncode == 0: if sync_and_delete:
ShouldSync(rc, sync) == rc = 0 /\ sync

\* a slip: the first rsync is never retried
NeverRetry(rc) == FALSE

\* if returncode != 0: (retry once)
ShouldRetry(rc) == rc # 0

\* a slip: the file is unlinked whatever rsync returned
UnlinkWhateverSync(rc) == TRUE

\* if returncode == 0: dumpfile.unlink()
ShouldUnlink(rc) == rc = 0

\* a slip: the healthcheck is pinged whatever the job returned
PingWhateverStatus(rc, hc) == hc

\* if returncode == 0 and healthcheck:
ShouldPing(rc, hc) == rc = 0 /\ hc

\* if snapshot: client.delete_db_snapshot(...)
ShouldDeleteSnapshot(snapshot) == snapshot

\* a slip: the instance deletion sits in the success branch only
DeleteOnSuccessOnly(rc) ==
    IF rc # 0 THEN "healthcheck"
    ELSE IF cfg.sync_and_delete THEN "rsync_partial" ELSE "delete_instance"

\* the statement reached once the dump returned rc
AfterDump(rc) ==
    IF ShouldSync(rc, cfg.sync_and_delete) THEN "rsync_partial" ELSE "delete_instance"

\* the statement reached once delete_db_instance returned
AfterDeleteInstance ==
    IF ShouldDeleteSnapshot(cfg.snapshot) THEN "delete_snapshot" ELSE "healthcheck"

dumpfile == DumpPath(engine, cfg.strip_passwords)

----------------------------------------------------------------------------
Init ==
    /\ cfg \in Configs
    /\ pc = "start"
    /\ error = "none"
    /\ snapState = "none"
    /\ latest = <<>>
    /\ instState = "none"
    /\ engine = "unknown"
    /\ slept = FALSE
    /\ \E pre \in SUBSET Paths :
          fs = [p \in Paths |-> IF p \in pre THEN "stub" ELSE "absent"]
    /\ created = {}
    /\ returncode = <<>>
    /\ dumprc = <<>>
    /\ xzrc = <<>>
    /\ grants = 0
    /\ permsCommitted = FALSE
    /\ stripped = FALSE
    /\ transfers = <<>>
    /\ delInstCalls = 0
    /\ delSnapCalls = 0
    /\ hcCalls = 0
    /\ probe = <<>>

\* an uncaught exception: the job ends where it was raised
Raise(e) ==
    /\ pc' = "aborted"
    /\ error' = e

Goto(l) ==
    /\ pc' = l
    /\ UNCHANGED error

----------------------------------------------------------------------------
(* 4.1 Snapshot resolver *)

\* if snapshot: client.create_db_snapshot(DBSnapshotIdentifier=dbb-..., Tags=tags)
CreateSnapshot ==
    /\ pc = "start"
    /\ cfg.snapshot
    /\ \/ /\ snapState' = "creating"
          /\ latest' = <<"dbb", 0>>
          /\ Goto("wait_snapshot")
       \/ /\ Raise("create_db_snapshot")
          /\ UNCHANGED <<snapState, latest>>
    /\ UNCHANGED <<cfg, probe, instState, engine, slept, local, pg, tail>>

\* a slip: the failure of the waiter is swallowed and the restore goes ahead
WaitSnapshotUnchecked ==
    /\ pc = "wait_snapshot"
    /\ \/ snapState' = "completed"
       \/ UNCHANGED snapState
    /\ Goto("restore")
    /\ UNCHANGED <<cfg, probe, latest, instState, engine, slept, local, pg, tail>>

\* waiter db_snapshot_completed
WaitSnapshot ==
    /\ pc = "wait_snapshot"
    /\ \/ /\ snapState' = "completed"
          /\ Goto("restore")
       \/ /\ Raise("db_snapshot_completed")
          /\ UNCHANGED snapState
    /\ UNCHANGED <<cfg, probe, latest, instState, engine, slept, local, pg, tail>>

\* else: describe_db_snapshots(...,'automated'); latest = max([... startswith ...])
IdentifySnapshots ==
    /\ pc = "start"
    /\ ~cfg.snapshot
    /\ \/ \E listed \in SUBSET Identifiers :
            LET r == Resolve(listed, Instance)
            IN  IF r.error = "none"
                THEN /\ latest' = <<"rds", r.latest>>
                     /\ Goto("restore")
                ELSE /\ Raise(r.error)        \* max() of an empty list, or strptime
                     /\ latest' = IF r.latest = <<>> THEN latest
                                  ELSE <<"rds", r.latest>>
       \/ /\ Raise("describe_db_snapshots")
          /\ UNCHANGED latest
    /\ UNCHANGED <<cfg, probe, snapState, instState, engine, slept, local, pg, tail>>

----------------------------------------------------------------------------
(* 4.2 Instance provisioner *)

\* client.restore_db_instance_from_db_snapshot(...)
RestoreInstance ==
    /\ pc = "restore"
    /\ \/ /\ instState' = "restoring"
          /\ Goto("wait_available")
       \/ /\ Raise("restore_db_instance_from_db_snapshot")
          /\ UNCHANGED instState
    /\ UNCHANGED <<cfg, probe, snapState, latest, engine, slept, local, pg, tail>>

\* waiter db_instance_available
WaitAvailable ==
    /\ pc = "wait_available"
    /\ \/ /\ instState' = "available"
          /\ Goto("describe")
       \/ /\ Raise("db_instance_available")
          /\ UNCHANGED instState
    /\ UNCHANGED <<cfg, probe, snapState, latest, engine, slept, local, pg, tail>>

\* client.describe_db_instances(...); engine = db['Engine'] ...
DescribeInstance ==
    /\ pc = "describe"
    /\ \/ /\ \E e \in Engines : engine' = e
          /\ Goto("modify")
       \/ /\ Raise("describe_db_instances")
          /\ UNCHANGED engine
    /\ UNCHANGED <<cfg, probe, snapState, latest, instState, slept, local, pg, tail>>

\* client.modify_db_instance(..., VpcSecurityGroupIds=[sg])
ModifyInstance ==
    /\ pc = "modify"
    /\ \/ /\ instState' = "reconfigured"
          /\ Goto("sleep")
       \/ /\ Raise("modify_db_instance")
          /\ UNCHANGED instState
    /\ UNCHANGED <<cfg, probe, snapState, latest, engine, slept, local, pg, tail>>

\* a slip: the warm-up delay is left out
NoSleep ==
    /\ pc = "sleep"
    /\ Goto("open")
    /\ UNCHANGED <<cfg, probe, snapState, latest, instState, engine, slept, local,
                   pg, tail>>

\* if sleep: time.sleep(sleep)
Sleep ==
    /\ pc = "sleep"
    /\ slept' = cfg.sleep
    /\ Goto("open")
    /\ UNCHANGED <<cfg, probe, snapState, latest, instState, engine, local, pg, tail>>

----------------------------------------------------------------------------
(* 4.4 Dump executor, with 4.3 permission fixer and 4.5 sanitizer *)

\* os.open(dumpfile, flags, mode) with flags = O_WRONLY | O_CREAT | O_EXCL
OpenDumpFile ==
    /\ pc = "open"
    /\ engine \in {"mysql", "postgres"}
    /\ IF OpenExclOk(fs[dumpfile])
       THEN /\ fs' = [fs EXCEPT ![dumpfile] = "empty"]
            /\ created' = IF fs[dumpfile] = "absent"      \* O_CREAT
                          THEN created \cup {dumpfile} ELSE created
            /\ Goto(IF engine = "mysql" THEN "mysqldump" ELSE "fix_perms")
       ELSE /\ Raise("FileExistsError")
            /\ UNCHANGED <<fs, created>>
    /\ UNCHANGED <<cfg, probe, cloud, returncode, dumprc, xzrc, pg, tail>>

\* neither `if engine == 'mysql'` nor `elif engine == 'postgres'` is taken:
\* `if returncode == 0` then reads a local that was never bound
UnsupportedEngine ==
    /\ pc = "open"
    /\ engine \notin {"mysql", "postgres"}
    /\ Raise("UnboundLocalError")
    /\ UNCHANGED <<cfg, probe, cloud, local, pg, tail>>

\* a slip-free pipeline status: the first non-zero status of the two tools
PipelineStatus(d, x) == IF d # 0 THEN d ELSE x

\* returncode = dump.wait(): the status of mysqldump, whatever xz returned
MysqlStatus(d, x) == d

\* what the dump file holds once the tools have run
Written(d, x) == IF d = 0 /\ x = 0 THEN "dump" ELSE "partial"

\* Popen(['mysqldump', ...]); subprocess.call(['xz', ...]); dump.wait()
MysqlDump ==
    /\ pc = "mysqldump"
    /\ \/ \E d \in ExitStatuses, x \in ExitStatuses :
            /\ dumprc' = <<d>>
            /\ xzrc' = <<x>>
            /\ returncode' = <<MysqlStatus(d, x)>>
            /\ fs' = [fs EXCEPT ![dumpfile] = Written(d, x)]
            /\ Goto(AfterDump(MysqlStatus(d, x)))
       \/ /\ Raise("OSError")                \* a tool could not be launched
          /\ UNCHANGED <<fs, returncode, dumprc, xzrc>>
    /\ UNCHANGED <<cfg, probe, cloud, created, pg, tail>>

\* a slip: a failure of the permission fixer is swallowed and the dump goes ahead
FixPermsUnchecked ==
    /\ pc = "fix_perms"
    /\ IF cfg.fix_perms
       THEN \/ /\ grants' = Len(Privileges)
               /\ permsCommitted' = TRUE
            \/ \E k \in 0..Len(Privileges) :
                 /\ grants' = k
                 /\ UNCHANGED permsCommitted
       ELSE UNCHANGED <<grants, permsCommitted>>
    /\ Goto("strip")
    /\ UNCHANGED <<cfg, probe, cloud, local, stripped, tail>>

\* if fix_perms: connect; four GRANTs; disconnect (commit)
FixPerms ==
    /\ pc = "fix_perms"
    /\ IF cfg.fix_perms
       THEN \/ /\ grants' = Len(Privileges)
               /\ permsCommitted' = TRUE
               /\ Goto("strip")
            \/ \E k \in 0..Len(Privileges) :  \* connect, a GRANT or the commit raises
                 /\ grants' = k
                 /\ UNCHANGED permsCommitted
                 /\ Raise("psycopg2.Error")
       ELSE /\ Goto("strip")
            /\ UNCHANGED <<grants, permsCommitted>>
    /\ UNCHANGED <<cfg, probe, cloud, local, stripped, tail>>

\* if strip_passwords: connect; update users set password=...; disconnect (commit)
StripPasswords ==
    /\ pc = "strip"
    /\ IF cfg.strip_passwords
       THEN \/ /\ stripped' = TRUE
               /\ Goto("pg_dump")
            \/ /\ UNCHANGED stripped
               /\ Raise("psycopg2.Error")
       ELSE /\ Goto("pg_dump")
            /\ UNCHANGED stripped
    /\ UNCHANGED <<cfg, probe, cloud, local, grants, permsCommitted, tail>>

\* returncode = subprocess.call(['pg_dump', '-Fc', ..., '-f', str(dumpfile)])
PgDump ==
    /\ pc = "pg_dump"
    /\ \/ \E d \in ExitStatuses :
            /\ dumprc' = <<d>>
            /\ returncode' = <<d>>
            /\ fs' = [fs EXCEPT ![dumpfile] = Written(d, 0)]
            /\ Goto(AfterDump(d))
       \/ /\ Raise("OSError")                \* pg_dump could not be launched
          /\ UNCHANGED <<fs, returncode, dumprc>>
    /\ UNCHANGED <<cfg, probe, cloud, created, xzrc, pg, tail>>

----------------------------------------------------------------------------
(* 4.6 Transfer agent *)

\* a slip: the unlink sits outside the test of the rsync status
UnlinkAlways(rc) == fs' = [fs EXCEPT ![dumpfile] = "absent"]

\* if returncode == 0: dumpfile.unlink() else: leave the file
Unlink(rc) ==
    IF ShouldUnlink(rc)
    THEN fs' = [fs EXCEPT ![dumpfile] = "absent"]
    ELSE UNCHANGED fs

\* returncode = subprocess.call(['rsync', '--partial', ...])
RsyncPartial ==
    /\ pc = "rsync_partial"
    /\ \E r \in ExitStatuses :
         /\ transfers' = Append(transfers, [mode |-> "partial", rc |-> r])
         /\ returncode' = <<r>>
         /\ IF ShouldRetry(r)
            THEN /\ Goto("rsync_append_verify")
                 /\ UNCHANGED fs
            ELSE /\ Unlink(r)
                 /\ Goto("delete_instance")
    /\ UNCHANGED <<cfg, probe, cloud, created, dumprc, xzrc, pg, delInstCalls,
                   delSnapCalls, hcCalls>>

\* returncode = subprocess.call(['rsync', '--append-verify', ...])
RsyncAppendVerify ==
    /\ pc = "rsync_append_verify"
    /\ \E r \in ExitStatuses :
         /\ transfers' = Append(transfers, [mode |-> "append-verify", rc |-> r])
         /\ returncode' = <<r>>
         /\ Unlink(r)
         /\ Goto("delete_instance")
    /\ UNCHANGED <<cfg, probe, cloud, created, dumprc, xzrc, pg, delInstCalls,
                   delSnapCalls, hcCalls>>

----------------------------------------------------------------------------
(* 4.7 Cleanup agent and 4.8 healthcheck reporter *)

\* client.delete_db_instance(DBInstanceIdentifier=db_instance, SkipFinalSnapshot=True)
DeleteInstance ==
    /\ pc = "delete_instance"
    /\ delInstCalls' = delInstCalls + 1
    /\ \/ /\ instState' = "deleted"
          /\ Goto(AfterDeleteInstance)
       \/ /\ Raise("delete_db_instance")
          /\ UNCHANGED instState
    /\ UNCHANGED <<cfg, probe, snapState, latest, engine, slept, local, pg, transfers,
                   delSnapCalls, hcCalls>>

\* if snapshot: client.delete_db_snapshot(DBSnapshotIdentifier=snapshot_id)
DeleteSnapshot ==
    /\ pc = "delete_snapshot"
    /\ delSnapCalls' = delSnapCalls + 1
    /\ \/ /\ snapState' = "deleted"
          /\ Goto("healthcheck")
       \/ /\ Raise("delete_db_snapshot")
          /\ UNCHANGED snapState
    /\ UNCHANGED <<cfg, probe, latest, instState, engine, slept, local, pg, transfers,
                   delInstCalls, hcCalls>>

\* if returncode == 0 and healthcheck: requests.get(healthcheck); print('Done.')
Healthcheck ==
    /\ pc = "healthcheck"
    /\ IF ShouldPing(returncode[1], cfg.healthcheck)
       THEN /\ hcCalls' = hcCalls + 1
            /\ \/ Goto("done")               \* any status code: at most a warning
               \/ Raise("requests.RequestException")
       ELSE /\ Goto("done")
            /\ UNCHANGED hcCalls
    /\ UNCHANGED <<cfg, probe, cloud, local, pg, transfers, delInstCalls, delSnapCalls>>

----------------------------------------------------------------------------
Next ==
    \/ CreateSnapshot
    \/ WaitSnapshot
    \/ IdentifySnapshots
    \/ RestoreInstance
    \/ WaitAvailable
    \/ DescribeInstance
    \/ ModifyInstance
    \/ Sleep
    \/ OpenDumpFile
    \/ UnsupportedEngine
    \/ MysqlDump
    \/ FixPerms
    \/ StripPasswords
    \/ PgDump
    \/ RsyncPartial
    \/ RsyncAppendVerify
    \/ DeleteInstance
    \/ DeleteSnapshot
    \/ Healthcheck

Spec == Init /\ [][Next]_vars

\* the job runs on: no statement of backup() waits for anything but its own call
FairSpec == Spec /\ WF_vars(Next)

----------------------------------------------------------------------------
(* The snapshot resolver applied on its own to every answer of the provider *)

\* no job runs: only the function under study is applied
NoJob ==
    /\ cfg = [snapshot |-> FALSE, fix_perms |-> FALSE, strip_passwords |-> FALSE,
              sync_and_delete |-> FALSE, healthcheck |-> FALSE, sleep |-> FALSE]
    /\ pc = "probe"
    /\ error = "none"
    /\ snapState = "none"
    /\ latest = <<>>
    /\ instState = "none"
    /\ engine = "unknown"
    /\ slept = FALSE
    /\ fs = [p \in Paths |-> "absent"]
    /\ created = {}
    /\ returncode = <<>>
    /\ dumprc = <<>>
    /\ xzrc = <<>>
    /\ grants = 0
    /\ permsCommitted = FALSE
    /\ stripped = FALSE
    /\ transfers = <<>>
    /\ delInstCalls = 0
    /\ delSnapCalls = 0
    /\ hcCalls = 0

job == <<cfg, pc, error, snapState, latest, instState, engine, slept, fs,
         created, returncode, dumprc, xzrc, grants, permsCommitted, stripped,
         transfers, delInstCalls, delSnapCalls, hcCalls>>

ResolverInit ==
    /\ NoJob
    /\ \E listed \in SUBSET Identifiers :
          probe = [listed |-> listed, done |-> FALSE]

ApplyResolve ==
    /\ ~probe.done
    /\ probe' = [listed |-> probe.listed, done |-> TRUE,
                 out |-> Resolve(probe.listed, Instance)]
    /\ UNCHANGED job

ResolverNext == ApplyResolve

ResolverSpec == ResolverInit /\ [][ResolverNext]_vars

----------------------------------------------------------------------------
(* The naming of the ephemeral instance applied on its own to two runs *)

\* seconds within a minute at which a job may start
Seconds == {0, 1}

\* datetime.now() at one-second resolution: <<minute, second>>
JobTimes == {<<m, sec>> : m \in SnapTimes, sec \in Seconds}

\* a slip: '%Y%m%d%H%M', the seconds left out of the format
StrftimeMinutes(t) == <<Digit(t[1])>>

\* t.strftime('%Y%m%d%H%M%S'): fixed-width fields down to the second
Strftime(t) == <<Digit(t[1]), Digit(t[2])>>

\* f'{instance}-{timestamp}-fromsnap-{snap}'
DbInstance(inst, timestamp, snap) ==
    inst \o <<"-">> \o timestamp
         \o <<"-", "f", "r", "o", "m", "s", "n", "a", "p", "-">> \o snap

\* a run: when it starts, whether it takes a snapshot, and the minute of the
\* latest automated snapshot of the instance otherwise
Runs == [time : JobTimes, snapshot : BOOLEAN, minute : SnapTimes]

\* lines 49-83: timestamp, snaptime and db_instance of a run
Naming(run) ==
    LET timestamp == Strftime(run.time)
        snaptime  == IF run.snapshot
                     THEN run.time
                     ELSE Strptime(AutomatedId(Instance, run.minute), Instance)[1]
        snap      == Strftime(snaptime)
    IN  [timestamp |-> timestamp, snap |-> snap,
         db_instance |-> DbInstance(Instance, timestamp, snap)]

NamingInit ==
    /\ NoJob
    /\ \E a \in Runs, b \in Runs : probe = [a |-> a, b |-> b, done |-> FALSE]

ApplyNaming ==
    /\ ~probe.done
    /\ probe' = [a |-> probe.a, b |-> probe.b, done |-> TRUE,
                 outa |-> Naming(probe.a), outb |-> Naming(probe.b)]
    /\ UNCHANGED job

NamingNext == ApplyNaming

NamingSpec == NamingInit /\ [][NamingNext]_vars

----------------------------------------------------------------------------
(* Shorthands for the properties *)

JobEnded == pc \in {"done", "aborted"}

InstanceCreated == instState # "none"

SnapshotCreated == snapState # "none"

DumpReturned == dumprc # <<>>

TypeOK ==
    /\ cfg \in Configs
    /\ pc \in {"start", "wait_snapshot", "restore", "wait_available", "describe",
               "modify", "sleep", "open", "mysqldump", "fix_perms", "strip",
               "pg_dump", "rsync_partial", "rsync_append_verify",
               "delete_instance", "delete_snapshot", "healthcheck", "done",
               "aborted", "probe"}
    /\ snapState \in {"none", "creating", "completed", "deleted"}
    /\ instState \in {"none", "restoring", "available", "reconfigured", "deleted"}
    /\ engine \in Engines \cup {"unknown"}
    /\ fs \in [Paths -> {"absent", "stub", "empty", "partial", "dump"}]
    /\ created \subseteq Paths
    /\ Len(returncode) <= 1 /\ Len(dumprc) <= 1 /\ Len(xzrc) <= 1
    /\ grants \in 0..Len(Privileges)
    /\ Len(transfers) <= 2
    /\ delInstCalls \in 0..1 /\ delSnapCalls \in 0..1 /\ hcCalls \in 0..1


\* some transfer attempt of this job returned status 0
TransferSucceeded == \E i \in 1..Len(transfers) : transfers[i].rc = 0

ArtifactDeleted == dumpfile \in created /\ fs[dumpfile] = "absent"

----------------------------------------------------------------------------
(* Properties *)

\* C1: on every exit path that got past the restore call, the deletion of the
\* ephemeral instance has been attempted by the time the job ends.
C1_CleanupOnEveryExit ==
    (JobEnded /\ InstanceCreated) => delInstCalls >= 1

C3_DeletedIffTransferred ==
    (JobEnded /\ dumpfile \in created) =>
        (fs[dumpfile] = "absent" <=> (cfg.sync_and_delete /\ TransferSucceeded))

C3_Witness ==
    /\ JobEnded
    /\ cfg.sync_and_delete
    /\ ArtifactDeleted
    /\ TransferSucceeded

\* C4: at most two transfer attempts are made, the first with --partial, the
\* second with --append-verify and exactly when the first returned non-zero;
\* a second attempt returning 0 deletes the artifact, two failures leave it.
C4_RetryOnce ==
    /\ Len(transfers) <= 2
    /\ Len(transfers) >= 1 => transfers[1].mode = "partial"
    /\ Len(transfers) = 2 =>
          /\ transfers[2].mode = "append-verify"
          /\ transfers[1].rc # 0
          /\ transfers[2].rc = 0 => fs[dumpfile] = "absent"
          /\ transfers[2].rc # 0 => fs[dumpfile] # "absent"
    /\ (JobEnded /\ Len(transfers) >= 1 /\ transfers[1].rc # 0) => Len(transfers) = 2

C4_Witness ==
    /\ JobEnded
    /\ Len(transfers) = 2
    /\ transfers[1].rc # 0 /\ transfers[2].rc = 0
    /\ ArtifactDeleted

\* C5: once the dump step returned non-zero, no transfer attempt is ever made
\* and the artifact is never deleted, even with sync-and-delete; the job goes
\* on to delete the ephemeral instance.
C5_FailedDumpSkipsTransfer ==
    (DumpReturned /\ dumprc[1] # 0) =>
        /\ transfers = <<>>
        /\ fs[dumpfile] # "absent"
        /\ pc = "delete_instance" \/ delInstCalls = 1

C5_Witness ==
    /\ DumpReturned /\ dumprc[1] # 0
    /\ cfg.sync_and_delete
    /\ delInstCalls = 1
    /\ pc = "done"

\* C6: when a file already exists at the dump path, creation fails fatally, no
\* dump tool runs and the file keeps its content; a dump is only ever written
\* to a path this job newly created.
C6_ExclusiveCreate ==
    /\ error = "FileExistsError" =>
          /\ fs[dumpfile] = "stub"
          /\ dumpfile \notin created
          /\ ~DumpReturned
    /\ \A p \in Paths : fs[p] \in {"empty", "partial", "dump"} => p \in created
    /\ DumpReturned => dumpfile \in created

C6_Witness ==
    /\ error = "FileExistsError"
    /\ engine \in {"mysql", "postgres"}
    /\ fs[dumpfile] = "stub"

\* C7: a job that fails with a configuration error (unsupported engine) has
\* created no snapshot and no ephemeral instance when the error is raised.
C7_ConfigErrorBeforeResources ==
    error = "UnboundLocalError" =>
        (~InstanceCreated /\ ~SnapshotCreated)

\* C8: the job deletes a snapshot only if it took a fresh one, and whenever it
\* created a fresh snapshot the deletion of that snapshot has been attempted by
\* the time the job ends, on every path.
C8_FreshSnapshotDeleted ==
    /\ delSnapCalls >= 1 => (cfg.snapshot /\ latest[1] = "dbb")
    /\ (JobEnded /\ SnapshotCreated) => delSnapCalls >= 1

\* C9: the healthcheck URL is requested at most once, and only if one is
\* configured, the dump returned 0 and, when sync-and-delete was requested, a
\* transfer attempt returned 0.
C9_HealthcheckOnSuccessOnly ==
    /\ hcCalls <= 1
    /\ hcCalls = 1 =>
          /\ cfg.healthcheck
          /\ dumprc = <<0>>
          /\ cfg.sync_and_delete => TransferSucceeded

C9_Witness ==
    /\ hcCalls = 1
    /\ cfg.sync_and_delete
    /\ Len(transfers) = 2
    /\ pc = "done"

\* C10: when the dump and the requested transfer succeeded, a rejected
\* deletion is only reported: by the end of the job the snapshot deletion (if a
\* fresh snapshot was taken) has been attempted and the configured healthcheck
\* has been pinged.
C10_CleanupFailureNotFatal ==
    (JobEnded /\ returncode = <<0>> /\ delInstCalls = 1) =>
        /\ cfg.snapshot => delSnapCalls = 1
        /\ cfg.healthcheck => hcCalls = 1


\* the listed identifiers that are automated snapshots of the job's instance
OwnSnapshots(listed) == {id \in listed : \E m \in SnapTimes : id = AutomatedId(Instance, m)}

\* C11: for every set of listed identifiers the resolver selects the greatest
\* identifier among those of the named instance, never one of another
\* instance, and fails fatally when the instance has none.
C11_SelectsLatestOwnSnapshot ==
    (probe # <<>> /\ probe.done) =>
        IF OwnSnapshots(probe.listed) = {}
        THEN probe.out.error # "none"
        ELSE /\ probe.out.error = "none"
             /\ probe.out.latest \in OwnSnapshots(probe.listed)
             /\ \A id \in OwnSnapshots(probe.listed) : LexLE(id, probe.out.latest)


\* the time of the snapshot a run restores: its own start for a fresh snapshot,
\* the minute of the automated snapshot otherwise
SnapshotTime(run) == IF run.snapshot THEN run.time ELSE <<run.minute, 0>>

\* C12: two runs against the same instance get the same ephemeral instance
\* identifier exactly when they start in the same second and restore snapshots
\* of equal times, which is always so when both take a fresh snapshot in the
\* same second.
C12_IdentifierCollision ==
    (probe # <<>> /\ probe.done) =>
        /\ (probe.outa.db_instance = probe.outb.db_instance) <=>
              /\ probe.a.time = probe.b.time
              /\ SnapshotTime(probe.a) = SnapshotTime(probe.b)
        /\ (probe.a.snapshot /\ probe.b.snapshot /\ probe.a.time = probe.b.time) =>
              probe.outa.db_instance = probe.outb.db_instance

C12_Witness ==
    /\ probe # <<>> /\ probe.done
    /\ probe.a.snapshot /\ ~probe.b.snapshot
    /\ probe.outa.db_instance = probe.outb.db_instance


\* C13: the artifact's name carries -SAFE exactly when the sanitizer is active
\* (strip-passwords on a Postgres instance); the dump tool writes into a
\* SAFE-tagged artifact only after the password overwrite was committed; on
\* another engine nothing is overwritten and nothing is tagged.
C13_SafeTag ==
    /\ \A p \in created :
          (p = "SAFE.dump") <=> (cfg.strip_passwords /\ engine = "postgres")
    /\ ("SAFE.dump" \in created /\ (pc = "pg_dump" \/ DumpReturned)) => stripped
    /\ engine # "postgres" => (~stripped /\ "SAFE.dump" \notin created)

C13_Witness ==
    /\ "SAFE.dump" \in created
    /\ DumpReturned
    /\ stripped

\* the lifecycle of the ephemeral instance, in order
Lifecycle == <<"none", "restoring", "available", "reconfigured", "deleted">>

Stage(st) == CHOOSE i \in 1..Len(Lifecycle) : Lifecycle[i] = st

\* C14: the ephemeral instance only moves forward, one stage at a time; the
\* security group is attached only to an available instance; a dump tool is
\* started only on a reconfigured instance and after the warm-up delay; once
\* the deletion was issued no dump, sanitizer, permission or transfer step runs.
C14_ForwardOnly ==
    /\ []((pc \in {"mysqldump", "fix_perms", "strip", "pg_dump"} \/ DumpReturned) =>
            /\ instState \in {"reconfigured", "deleted"}
            /\ cfg.sleep => slept)
    /\ [][/\ Stage(instState') \in {Stage(instState), Stage(instState) + 1}
          /\ (instState' = "reconfigured" /\ instState # "reconfigured") =>
                instState = "available"
          /\ delInstCalls >= 1 =>
                UNCHANGED <<fs, dumprc, xzrc, grants, permsCommitted, stripped,
                            transfers>>]_vars

C14_Witness ==
    /\ instState = "deleted"
    /\ DumpReturned
    /\ cfg.sleep /\ slept
    /\ pc = "done"

\* C15: with fix-permissions on a Postgres instance all four grants are
\* executed and committed before pg_dump is invoked; when the permission fixer
\* fails pg_dump is never invoked and nothing is transferred or deleted.
C15_GrantsBeforeDump ==
    /\ (cfg.fix_perms /\ engine = "postgres" /\ (pc = "pg_dump" \/ DumpReturned)) =>
          (grants = Len(Privileges) /\ permsCommitted)
    /\ (cfg.fix_perms /\ error = "psycopg2.Error" /\ ~permsCommitted) =>
          /\ ~DumpReturned
          /\ transfers = <<>>
          /\ fs[dumpfile] = "empty"

C15_Witness ==
    /\ cfg.fix_perms
    /\ engine = "postgres"
    /\ permsCommitted
    /\ DumpReturned

\* C16: with take-fresh-snapshot the restore is issued only once the snapshot
\* was created and its wait returned, and from that snapshot; a rejected
\* creation or failed wait ends the job with no restore and no fall-back to an
\* automated snapshot. The snapshot reference is fixed before the restore and
\* never changes afterwards.
C16_OneSnapshotRef ==
    /\ []((cfg.snapshot /\ (pc = "restore" \/ InstanceCreated)) =>
            /\ latest # <<>> /\ latest[1] = "dbb"
            /\ snapState \in {"completed", "deleted"})
    /\ [](error \in {"create_db_snapshot", "db_snapshot_completed"} =>
            ~InstanceCreated)
    /\ []((cfg.snapshot /\ latest # <<>>) => latest[1] = "dbb")
    /\ []((pc = "restore" \/ InstanceCreated) => latest # <<>>)
    /\ [][(pc = "restore" \/ InstanceCreated) => latest' = latest]_vars

C16_Witness ==
    /\ cfg.snapshot
    /\ InstanceCreated
    /\ snapState = "deleted"
    /\ pc = "done"

\* C17: for mysql the dump status is the status of mysqldump alone: when
\* mysqldump exits 0 and xz does not, the job goes on as after a successful
\* dump: the transfer is made if requested, the artifact is deleted once a
\* transfer returned 0, and the healthcheck is pinged.
C17_CompressorStatusIgnored ==
    (engine = "mysql" /\ dumprc = <<0>> /\ xzrc # <<0>>) =>
        /\ transfers = <<>> => returncode = <<0>>
        /\ cfg.sync_and_delete => (pc = "rsync_partial" \/ transfers # <<>>)
        /\ TransferSucceeded => fs[dumpfile] = "absent"
        /\ (pc = "done" /\ cfg.healthcheck
              /\ (cfg.sync_and_delete => TransferSucceeded)) => hcCalls = 1

C17_Witness ==
    /\ engine = "mysql"
    /\ dumprc = <<0>> /\ xzrc = <<1>>
    /\ ArtifactDeleted
    /\ hcCalls = 1

\* C18: whenever the artifact has been unlinked, the most recent transfer
\* attempt returned 0, and no transfer attempt is made after the unlink.
C18_UnlinkAfterSuccess ==
    /\ [](ArtifactDeleted =>
            (transfers # <<>> /\ transfers[Len(transfers)].rc = 0))
    /\ [][ArtifactDeleted => transfers' = transfers]_vars

C18_Witness ==
    /\ ArtifactDeleted
    /\ Len(transfers) = 1
    /\ pc = "delete_instance"

====
